---- MODULE Spec2Model ----
(***************************************************************************)
(* Model of the MyGameConsole firmware: the 2048 game engine, its render   *)
(* and the main loop of firmware/src/main.rs (Game, main), the keyboard    *)
(* edge detector and the display of firmware/src/hw.rs (Keyboard,          *)
(* Display), and the ROM image conversion of firmware/xtask/src/main.rs    *)
(* (gen_rom_hex).                                                          *)
(*                                                                         *)
(* A u32 word (the xorshift state, the key register, prev_state) is the    *)
(* set of its set bit positions, a subset of 0..31: XOR is symmetric       *)
(* difference, AND is intersection, a shift moves the positions and        *)
(* drops those that leave 0..31, and 0 is the empty set.                   *)
(***************************************************************************)
EXTENDS Integers, Sequences, FiniteSets, TLC

VARIABLES
    grid,             \* Game.grid: [0..3 -> [0..3 -> u8]], 0 = empty, n = 2^n
    score,            \* Game.score
    rng,              \* Game.rng, a word
    line,             \* the [u8; GRID] argument of slide_line
    reg,              \* the key-state register at KB_BASE, a word
    prev_state,       \* Keyboard.prev_state, a word
    overflow_checks,  \* build profile: TRUE = debug (overflow and debug_assert panic)
    halted,           \* the panic handler (panic_halt) has been entered
    trace,            \* the most recent calls: what was passed and returned
    ncalls,           \* number of calls made so far
    unreported,       \* key bits whose current hold no just_pressed has reported
    pc,               \* main: the statement about to run
    held,             \* main: one key's hold: polls since it went down, operations applied
    bin,              \* xtask: the bytes of the .bin file
    hex               \* xtask: the lines written to rom.hex

vars == <<grid, score, rng, line, reg, prev_state, overflow_checks, halted,
          trace, ncalls, unreported, pc, held, bin, hex>>

(***************************************************************************)
(* Bounds                                                                  *)
(***************************************************************************)
MaxExp == 3        \* lines given to slide_line hold exponents 0..MaxExp, or 255
MaxSlides == 2     \* consecutive slide_line calls on one line
MaxOps == 6        \* calls made on the game after Game::new()
NumSeeds == 3      \* PRNG states tried on an arbitrary game: the seed after 0, 2, 4, .. draws
NumRowKinds == 5   \* row patterns an arbitrary grid is built from
MaxScore == 1      \* score values tried on an arbitrary game
MaxBits == 2       \* bits set in a PRNG state given to next_rand
MaxDraws == 6      \* consecutive next_rand draws
NumKeys == 2       \* key bits the register changes on
PollKeys == 1      \* key bits the register changes on during a recorded polling session
MaxPolls == 4      \* polls of a recorded polling session
MaxShort == 9      \* bytes of a short program image
MaxOver == 5       \* bytes by which a long image misses or exceeds the ROM size
NumFills == 3      \* byte patterns an image is filled with
MaxTile == 9       \* largest exponent on a rendered grid
NumMainKeys == 1   \* key bits the register changes on while main runs
MaxMainOps == 4    \* resets and moves main applies, the first reset included

(***************************************************************************)
(* Program constants                                                       *)
(***************************************************************************)
GRID == 4
WordBits == 32
U8Max == 255
MAX_WORDS == 4096
DISP_WIDTH == 320
DISP_HEIGHT == 240
TILE_SIZE == 50

Idx == 0..(GRID - 1)
Bits == 0..(WordBits - 1)
Zero == {}
Directions == {"Up", "Down", "Left", "Right"}

(***************************************************************************)
(* Word arithmetic                                                         *)
(***************************************************************************)
Xor(a, b) == (a \ b) \cup (b \ a)
Shl(a, k) == {i + k : i \in {j \in a : j + k < WordBits}}
Shr(a, k) == {i - k : i \in {j \in a : j >= k}}

\* a % m for a word a and 1 <= m <= 16, folding from the top bit down
RECURSIVE ModFrom(_, _, _, _)
ModFrom(a, m, i, acc) ==
    IF i < 0 THEN acc
    ELSE ModFrom(a, m, i - 1, (2 * acc + (IF i \in a THEN 1 ELSE 0)) % m)

WordMod(a, m) == ModFrom(a, m, WordBits - 1, 0)

(***************************************************************************)
(* Game::next_rand                                                         *)
(***************************************************************************)
next_rand_and(x0) ==
    LET x1 == x0 \cap Shl(x0, 13)
        x2 == Xor(x1, Shr(x1, 17))
    IN  Xor(x2, Shl(x2, 5))

next_rand(x0) ==
    LET x1 == Xor(x0, Shl(x0, 13))
        x2 == Xor(x1, Shr(x1, 17))
    IN  Xor(x2, Shl(x2, 5))

RECURSIVE Draws(_, _)
Draws(x, n) == IF n = 0 THEN x ELSE Draws(next_rand(x), n - 1)

(***************************************************************************)
(* Game::new                                                               *)
(***************************************************************************)
EmptyGrid == [y \in Idx |-> [x \in Idx |-> 0]]
Game_new == [grid |-> EmptyGrid, score |-> 0, rng |-> {0}]

(***************************************************************************)
(* Game::spawn_tile.  The result carries the values it drew.               *)
(***************************************************************************)
Empties(g) ==
    SelectSeq([p \in 1..(GRID * GRID) |-> p - 1],
              LAMBDA pos : g[pos \div GRID][pos % GRID] = 0)

Occupied(g) == Cardinality({c \in Idx \X Idx : g[c[1]][c[2]] # 0})

spawn_tile_swapped(self) ==
    LET empties == Empties(self.grid)
        count == Len(empties)
    IN  IF count = 0 THEN [self |-> self, drawn |-> <<>>]
        ELSE LET r1 == next_rand(self.rng)
                 idx == WordMod(r1, count)
                 pos == empties[idx + 1]
                 y == pos \div GRID
                 x == pos % GRID
                 r2 == next_rand(r1)
                 exp == IF r2 \cap {0, 1} = {} THEN 1 ELSE 2
             IN  [self |-> [self EXCEPT !.grid[y][x] = exp, !.rng = r2],
                  drawn |-> <<r1, r2>>]

spawn_tile_from_end(self) ==
    LET empties == Empties(self.grid)
        count == Len(empties)
    IN  IF count = 0 THEN [self |-> self, drawn |-> <<>>]
        ELSE LET r1 == next_rand(self.rng)
                 idx == WordMod(r1, count)
                 pos == empties[count - idx]
                 y == pos \div GRID
                 x == pos % GRID
                 r2 == next_rand(r1)
                 exp == IF r2 \cap {0, 1} = {} THEN 2 ELSE 1
             IN  [self |-> [self EXCEPT !.grid[y][x] = exp, !.rng = r2],
                  drawn |-> <<r1, r2>>]

spawn_tile(self) ==
    LET empties == Empties(self.grid)
        count == Len(empties)
    IN  IF count = 0 THEN [self |-> self, drawn |-> <<>>]
        ELSE LET r1 == next_rand(self.rng)
                 idx == WordMod(r1, count)
                 pos == empties[idx + 1]
                 y == pos \div GRID
                 x == pos % GRID
                 r2 == next_rand(r1)
                 exp == IF r2 \cap {0, 1} = {} THEN 2 ELSE 1
             IN  [self |-> [self EXCEPT !.grid[y][x] = exp, !.rng = r2],
                  drawn |-> <<r1, r2>>]

(***************************************************************************)
(* Game::reset                                                             *)
(***************************************************************************)
reset_keep_grid(self) ==
    LET s0 == [self EXCEPT !.score = 0]
        a == spawn_tile(s0)
        b == spawn_tile(a.self)
    IN  [self |-> b.self, drawn |-> a.drawn \o b.drawn]

reset(self) ==
    LET s0 == [self EXCEPT !.grid = EmptyGrid, !.score = 0]
        a == spawn_tile(s0)
        b == spawn_tile(a.self)
    IN  [self |-> b.self, drawn |-> a.drawn \o b.drawn]

(***************************************************************************)
(* Game::slide_line.  checks = the build panics on u8 overflow; otherwise  *)
(* line[i] += 1 wraps.  A pass stops at a panic.                           *)
(***************************************************************************)
\* passes 1 and 3: compact towards index 0; pass 3 does not record moves
RECURSIVE CompactPass(_, _, _, _, _)
CompactPass(l, i, target, moved, record) ==
    IF i = GRID THEN [line |-> l, moved |-> moved]
    ELSE IF l[i] # 0
         THEN IF i # target
              THEN CompactPass([l EXCEPT ![target] = l[i], ![i] = 0],
                               i + 1, target + 1, moved \/ record, record)
              ELSE CompactPass(l, i + 1, target + 1, moved, record)
         ELSE CompactPass(l, i + 1, target, moved, record)

\* pass 2: merge equal neighbours, scanning i = 0..GRID-2 once
RECURSIVE MergePass_keep_neighbour(_, _, _, _, _)
MergePass_keep_neighbour(l, i, moved, checks, record) ==
    IF i = GRID - 1 THEN [line |-> l, moved |-> moved, panic |-> FALSE]
    ELSE IF l[i] # 0 /\ l[i] = l[i + 1]
         THEN IF l[i] = U8Max /\ checks
              THEN [line |-> l, moved |-> moved, panic |-> TRUE]
              ELSE MergePass_keep_neighbour([l EXCEPT ![i] = (l[i] + 1) % (U8Max + 1)],
                             i + 1, moved \/ record, checks, record)
         ELSE MergePass_keep_neighbour(l, i + 1, moved, checks, record)

RECURSIVE MergePass(_, _, _, _, _)
MergePass(l, i, moved, checks, record) ==
    IF i = GRID - 1 THEN [line |-> l, moved |-> moved, panic |-> FALSE]
    ELSE IF l[i] # 0 /\ l[i] = l[i + 1]
         THEN IF l[i] = U8Max /\ checks
              THEN [line |-> l, moved |-> moved, panic |-> TRUE]
              ELSE MergePass([l EXCEPT ![i] = (l[i] + 1) % (U8Max + 1), ![i + 1] = 0],
                             i + 1, moved \/ record, checks, record)
         ELSE MergePass(l, i + 1, moved, checks, record)

slide_line_no_recompact(l, checks) ==
    LET p1 == CompactPass(l, 0, 0, FALSE, TRUE)
        p2 == MergePass(p1.line, 0, p1.moved, checks, TRUE)
    IN  [line |-> p2.line, moved |-> p2.moved, panic |-> p2.panic]

slide_line_merge_unrecorded(l, checks) ==
    LET p1 == CompactPass(l, 0, 0, FALSE, TRUE)
        p2 == MergePass(p1.line, 0, p1.moved, checks, FALSE)
        p3 == CompactPass(p2.line, 0, 0, p2.moved, FALSE)
    IN  IF p2.panic THEN [line |-> p2.line, moved |-> p2.moved, panic |-> TRUE]
        ELSE [line |-> p3.line, moved |-> p3.moved, panic |-> FALSE]

slide_line_merge_again(l, checks) ==
    LET p1 == CompactPass(l, 0, 0, FALSE, TRUE)
        p2 == MergePass(p1.line, 0, p1.moved, checks, TRUE)
        p3 == CompactPass(p2.line, 0, 0, p2.moved, FALSE)
        p4 == MergePass(p3.line, 0, p3.moved, checks, TRUE)
        p5 == CompactPass(p4.line, 0, 0, p4.moved, FALSE)
    IN  IF p2.panic THEN [line |-> p2.line, moved |-> p2.moved, panic |-> TRUE]
        ELSE IF p4.panic THEN [line |-> p4.line, moved |-> p4.moved, panic |-> TRUE]
        ELSE [line |-> p5.line, moved |-> p5.moved, panic |-> FALSE]

slide_line(l, checks) ==
    LET p1 == CompactPass(l, 0, 0, FALSE, TRUE)
        p2 == MergePass(p1.line, 0, p1.moved, checks, TRUE)
        p3 == CompactPass(p2.line, 0, 0, p2.moved, FALSE)
    IN  IF p2.panic THEN [line |-> p2.line, moved |-> p2.moved, panic |-> TRUE]
        ELSE [line |-> p3.line, moved |-> p3.moved, panic |-> FALSE]

(***************************************************************************)
(* Game::make_move.  The four arms read a line, slide it and write it      *)
(* back; Left slides the row in place.  slid is the game as the four       *)
(* slides leave it, at the test of moved that precedes the spawn.          *)
(***************************************************************************)
Reverse(l) == [i \in Idx |-> l[GRID - 1 - i]]

ReadLine(g, dir, k) ==
    CASE dir = "Left"  -> g[k]
      [] dir = "Right" -> Reverse(g[k])
      [] dir = "Up"    -> [y \in Idx |-> g[y][k]]
      [] dir = "Down"  -> [y \in Idx |-> g[GRID - 1 - y][k]]

WriteLine_no_reverse(g, dir, k, l) ==
    CASE dir = "Left"  -> [g EXCEPT ![k] = l]
      [] dir = "Right" -> [g EXCEPT ![k] = l]
      [] dir = "Up"    -> [y \in Idx |-> [x \in Idx |-> IF x = k THEN l[y] ELSE g[y][x]]]
      [] dir = "Down"  -> [y \in Idx |-> [x \in Idx |->
                              IF x = k THEN l[GRID - 1 - y] ELSE g[y][x]]]

WriteLine(g, dir, k, l) ==
    CASE dir = "Left"  -> [g EXCEPT ![k] = l]
      [] dir = "Right" -> [g EXCEPT ![k] = Reverse(l)]
      [] dir = "Up"    -> [y \in Idx |-> [x \in Idx |-> IF x = k THEN l[y] ELSE g[y][x]]]
      [] dir = "Down"  -> [y \in Idx |-> [x \in Idx |->
                              IF x = k THEN l[GRID - 1 - y] ELSE g[y][x]]]

\* the loop over the four lines; a panic in slide_line ends it, and only the
\* in-place arm has written the line it was working on
RECURSIVE SlideAll(_, _, _, _, _)
SlideAll(g, dir, k, moved, checks) ==
    IF k = GRID THEN [grid |-> g, moved |-> moved, panic |-> FALSE]
    ELSE LET s == slide_line(ReadLine(g, dir, k), checks)
         IN  IF s.panic
             THEN [grid |-> IF dir = "Left" THEN WriteLine(g, dir, k, s.line) ELSE g,
                   moved |-> moved, panic |-> TRUE]
             ELSE SlideAll(WriteLine(g, dir, k, s.line), dir, k + 1,
                           moved \/ s.moved, checks)

make_move_always_spawn(self, dir, checks) ==
    LET s == SlideAll(self.grid, dir, 0, FALSE, checks)
        slid == [self EXCEPT !.grid = s.grid]
    IN  IF s.panic
        THEN [self |-> slid, ret |-> FALSE, panic |-> TRUE, io |-> <<>>, slid |-> slid]
        ELSE LET sp == spawn_tile(slid)
             IN  [self |-> sp.self, ret |-> s.moved, panic |-> FALSE, io |-> sp.drawn,
                  slid |-> slid]

make_move_last_line(self, dir, checks) ==
    LET s == SlideAll(self.grid, dir, 0, FALSE, checks)
        last == slide_line(ReadLine(self.grid, dir, GRID - 1), checks).moved
        slid == [self EXCEPT !.grid = s.grid]
    IN  IF s.panic
        THEN [self |-> slid, ret |-> FALSE, panic |-> TRUE, io |-> <<>>, slid |-> slid]
        ELSE IF last
             THEN LET sp == spawn_tile(slid)
                  IN  [self |-> sp.self, ret |-> TRUE, panic |-> FALSE, io |-> sp.drawn,
                       slid |-> slid]
             ELSE [self |-> slid, ret |-> FALSE, panic |-> FALSE, io |-> <<>>,
                   slid |-> slid]

make_move(self, dir, checks) ==
    LET s == SlideAll(self.grid, dir, 0, FALSE, checks)
        slid == [self EXCEPT !.grid = s.grid]
    IN  IF s.panic
        THEN [self |-> slid, ret |-> FALSE, panic |-> TRUE, io |-> <<>>, slid |-> slid]
        ELSE IF s.moved
             THEN LET sp == spawn_tile(slid)
                  IN  [self |-> sp.self, ret |-> TRUE, panic |-> FALSE, io |-> sp.drawn,
                       slid |-> slid]
             ELSE [self |-> slid, ret |-> FALSE, panic |-> FALSE, io |-> <<>>,
                   slid |-> slid]

(***************************************************************************)
(* The record of a call: what it was given (arg, pre), what it left (post) *)
(* and returned (ret, or panic), and the values it obtained on the way     *)
(* (io: the PRNG draws, the register samples).  trace keeps the last few.  *)
(***************************************************************************)
Self == [grid |-> grid, score |-> score, rng |-> rng]

Entry(op, arg, pre, post, ret, panic, io) ==
    [op |-> op, arg |-> arg, pre |-> pre, post |-> post, ret |-> ret,
     panic |-> panic, io |-> io]

Push(t, e, window) ==
    LET s == Append(t, e)
    IN  IF Len(s) <= window THEN s ELSE SubSeq(s, Len(s) - window + 1, Len(s))

Called == trace # <<>>
call == trace[Len(trace)]

GameVars == <<grid, score, rng>>
KbVars == <<reg, prev_state, unreported>>
MainVars == <<pc, held>>
ToolVars == <<bin, hex>>

\* main has not started, no key is down, the tool has read and written nothing
NoMain == pc = "-" /\ held = <<>>
NoTool == bin = <<>> /\ hex = <<>>

(***************************************************************************)
(* Calls on the game                                                       *)
(***************************************************************************)
Reset ==
    /\ ~halted
    /\ \E r \in {reset(Self)} :
           /\ grid' = r.self.grid
           /\ score' = r.self.score
           /\ rng' = r.self.rng
           /\ trace' = Push(trace, Entry("reset", "-", Self, r.self, FALSE, FALSE, r.drawn), 1)
    /\ ncalls' = ncalls + 1
    /\ UNCHANGED <<line, KbVars, overflow_checks, halted>>
    /\ UNCHANGED <<MainVars, ToolVars>>

MakeMove(dir) ==
    /\ ~halted
    /\ \E r \in {make_move(Self, dir, overflow_checks)} :
           /\ grid' = r.self.grid
           /\ score' = r.self.score
           /\ rng' = r.self.rng
           /\ halted' = r.panic
           /\ trace' = Push(Push(trace,
                  Entry("slide", dir, Self, r.slid, r.ret, r.panic, <<>>), 2),
                  Entry("make_move", dir, Self, r.self, r.ret, r.panic, r.io), 2)
    /\ ncalls' = ncalls + 1
    /\ UNCHANGED <<line, KbVars, overflow_checks>>
    /\ UNCHANGED <<MainVars, ToolVars>>

SpawnTile ==
    /\ ~halted
    /\ \E r \in {spawn_tile(Self)} :
           /\ grid' = r.self.grid
           /\ score' = r.self.score
           /\ rng' = r.self.rng
           /\ trace' = Push(trace, Entry("spawn_tile", "-", Self, r.self, FALSE, FALSE, r.drawn), 1)
    /\ ncalls' = ncalls + 1
    /\ UNCHANGED <<line, KbVars, overflow_checks, halted>>
    /\ UNCHANGED <<MainVars, ToolVars>>

NextRand ==
    /\ ~halted
    /\ rng' = next_rand(rng)
    /\ trace' = Push(trace, Entry("next_rand", "-", rng, rng', FALSE, FALSE, <<rng'>>), 1)
    /\ ncalls' = ncalls + 1
    /\ UNCHANGED <<grid, score, line, KbVars, overflow_checks, halted>>
    /\ UNCHANGED <<MainVars, ToolVars>>

SlideLine ==
    /\ ~halted
    /\ \E r \in {slide_line(line, overflow_checks)} :
           /\ line' = r.line
           /\ halted' = r.panic
           /\ trace' = Push(trace, Entry("slide_line", "-", line, r.line, r.moved, r.panic, <<>>), 2)
    /\ ncalls' = ncalls + 1
    /\ UNCHANGED <<GameVars, KbVars, overflow_checks>>
    /\ UNCHANGED <<MainVars, ToolVars>>

(***************************************************************************)
(* Spec: the game as main drives it.  main builds the Game, resets it, and *)
(* from then on every key edge is one make_move or one reset.              *)
(***************************************************************************)
NoLine == [i \in Idx |-> 0]

Init ==
    /\ grid = Game_new.grid
    /\ score = Game_new.score
    /\ rng = Game_new.rng
    /\ line = NoLine
    /\ reg = Zero
    /\ prev_state = Zero
    /\ unreported = Zero
    /\ overflow_checks \in BOOLEAN
    /\ halted = FALSE
    /\ trace = <<>>
    /\ ncalls = 0
    /\ NoMain
    /\ NoTool

MainReset == ncalls < MaxOps /\ Reset
MainMove(dir) == ncalls > 0 /\ ncalls < MaxOps /\ MakeMove(dir)

Next ==
    \/ MainReset
    \/ \E dir \in Directions : MainMove(dir)

Spec == Init /\ [][Next]_vars

(***************************************************************************)
(* SpecAny: one call of make_move, reset or spawn_tile on an arbitrary     *)
(* game.  The grid is four rows drawn from RowKinds (empty, full without   *)
(* equal neighbours, packed, gapped, mergeable), the PRNG state is the     *)
(* seed after an even number of draws (every spawn draws twice).  No row   *)
(* holds exponent 255: sixteen cells cannot build a tile of 2^255.         *)
(***************************************************************************)
L(a, b, c, d) == [i \in Idx |-> <<a, b, c, d>>[i + 1]]

RowKinds ==
    << L(0, 0, 0, 0), L(1, 2, 1, 2), L(2, 1, 2, 1), L(1, 1, 0, 0), L(0, 2, 0, 1),
       L(1, 1, 1, 1), L(0, 0, 0, 1), L(3, 3, 2, 1) >>

Min(a, b) == IF a < b THEN a ELSE b
Rows == {RowKinds[k] : k \in 1..Min(NumRowKinds, Len(RowKinds))}
Seeds == {Draws(Game_new.rng, 2 * k) : k \in 0..(NumSeeds - 1)}

InitAny ==
    /\ grid \in [Idx -> Rows]
    /\ score \in 0..MaxScore
    /\ rng \in Seeds
    /\ line = NoLine
    /\ reg = Zero
    /\ prev_state = Zero
    /\ unreported = Zero
    /\ overflow_checks \in BOOLEAN
    /\ halted = FALSE
    /\ trace = <<>>
    /\ ncalls = 0
    /\ NoMain
    /\ NoTool

AnyReset == ncalls = 0 /\ Reset
AnyMove(dir) == ncalls = 0 /\ MakeMove(dir)
AnySpawn == ncalls = 0 /\ SpawnTile

NextAny ==
    \/ AnyReset
    \/ \E dir \in Directions : AnyMove(dir)
    \/ AnySpawn

SpecAny == InitAny /\ [][NextAny]_vars

(***************************************************************************)
(* SpecLine: slide_line applied to an arbitrary line, up to MaxSlides      *)
(* times in a row, in either build.                                        *)
(***************************************************************************)
Exps == (0..MaxExp) \cup {U8Max}

InitLine ==
    /\ grid = Game_new.grid
    /\ score = Game_new.score
    /\ rng = Game_new.rng
    /\ line \in [Idx -> Exps]
    /\ reg = Zero
    /\ prev_state = Zero
    /\ unreported = Zero
    /\ overflow_checks \in BOOLEAN
    /\ halted = FALSE
    /\ trace = <<>>
    /\ ncalls = 0
    /\ NoMain
    /\ NoTool

LineSlide == ncalls < MaxSlides /\ SlideLine

NextLine == LineSlide

SpecLine == InitLine /\ [][NextLine]_vars

(***************************************************************************)
(* SpecSlide: SpecLine and SpecAny side by side, for the statements that   *)
(* speak of slide_line and of make_move together.                          *)
(***************************************************************************)
InitSlide == InitLine \/ InitAny

NextSlide == NextLine \/ NextAny

SpecSlide == InitSlide /\ [][NextSlide]_vars

(***************************************************************************)
(* SpecRand: next_rand drawn MaxDraws times from every state with 1 to     *)
(* MaxBits bits set (the seed 1 is one of them).                           *)
(***************************************************************************)
RECURSIVE WordsUpTo(_)
WordsUpTo(n) ==
    IF n = 0 THEN {Zero}
    ELSE LET W == WordsUpTo(n - 1) IN W \cup {w \cup {b} : w \in W, b \in Bits}

InitRand ==
    /\ grid = Game_new.grid
    /\ score = Game_new.score
    /\ rng \in WordsUpTo(MaxBits) \ {Zero}
    /\ line = NoLine
    /\ reg = Zero
    /\ prev_state = Zero
    /\ unreported = Zero
    /\ overflow_checks = FALSE
    /\ halted = FALSE
    /\ trace = <<>>
    /\ ncalls = 0
    /\ NoMain
    /\ NoTool

RandDraw == ncalls < MaxDraws /\ NextRand

NextRandom == RandDraw

SpecRand == InitRand /\ [][NextRandom]_vars

(***************************************************************************)
(* Keyboard::letter_index.  A char is its code point; Option<u8> is a      *)
(* sequence of length 0 (None) or 1 (Some).  `ch as u32 as u8` keeps the   *)
(* low byte.                                                               *)
(***************************************************************************)
letter_index(ch) ==
    LET byte == ch % 256
        upper == IF byte >= 97 /\ byte <= 122 THEN byte - 32 ELSE byte
    IN  IF upper >= 65 /\ upper <= 90 THEN <<upper - 65>> ELSE <<>>

(***************************************************************************)
(* Keyboard::is_pressed_idx, Keyboard::just_pressed_idx on a fresh sample  *)
(* `current` of the register (read_raw).                                   *)
(***************************************************************************)
is_pressed_idx(current, bit_index) ==
    LET mask == {bit_index}
    IN  current \cap mask # Zero

just_pressed_idx_per_key(prev, current, bit_index) ==
    LET mask == {bit_index}
        previously_set == prev \cap mask # Zero
        now_set == current \cap mask # Zero
    IN  [prev_state |-> (prev \ mask) \cup (current \cap mask),
         ret |-> now_set /\ ~previously_set]

just_pressed_idx_no_update(prev, current, bit_index) ==
    LET mask == {bit_index}
        previously_set == prev \cap mask # Zero
        now_set == current \cap mask # Zero
    IN  [prev_state |-> prev, ret |-> now_set /\ ~previously_set]

just_pressed_idx_level(prev, current, bit_index) ==
    LET mask == {bit_index}
        now_set == current \cap mask # Zero
    IN  [prev_state |-> current, ret |-> now_set]

just_pressed_idx(prev, current, bit_index) ==
    LET mask == {bit_index}
        previously_set == prev \cap mask # Zero
        now_set == current \cap mask # Zero
    IN  [prev_state |-> current, ret |-> now_set /\ ~previously_set]

(***************************************************************************)
(* Keyboard::is_pressed, Keyboard::just_pressed.  io = the samples read.   *)
(***************************************************************************)
is_pressed(prev, register, ch) ==
    LET idx == letter_index(ch)
    IN  IF idx # <<>>
        THEN [prev_state |-> prev, ret |-> is_pressed_idx(register, idx[1]),
              io |-> <<register>>]
        ELSE [prev_state |-> prev, ret |-> FALSE, io |-> <<>>]

just_pressed(prev, register, ch) ==
    LET idx == letter_index(ch)
    IN  IF idx # <<>>
        THEN LET r == just_pressed_idx(prev, register, idx[1])
             IN  [prev_state |-> r.prev_state, ret |-> r.ret, io |-> <<register>>]
        ELSE [prev_state |-> prev, ret |-> FALSE, io |-> <<>>]

(***************************************************************************)
(* The keys and the characters asked about.  KEY_A = 0, KEY_W = 22,        *)
(* KEY_D = 3, KEY_S = 18, KEY_R = 17.                                      *)
(***************************************************************************)
KeyOrder == <<0, 22, 3, 18, 17>>
KeyBits(n) == {KeyOrder[k] : k \in 1..Min(n, Len(KeyOrder))}

\* KEY_A, KEY_R, KEY_W, KEY_S, KEY_D: the keys main asks about
MainKeyOrder == <<0, 17, 22, 18, 3>>
MainKeyBits == {MainKeyOrder[k] : k \in 1..Min(NumMainKeys, Len(MainKeyOrder))}

\* 'a', 'A', 'w', '@', '{', and U+0141 whose low byte is 'A'
Chars == {97, 65, 119, 64, 123, 321}
\* 'a', 'W'
PollChars == {97, 87}

(***************************************************************************)
(* The register changes (keys go down and up), and the calls on the        *)
(* Keyboard.  unreported follows the physical keys: a bit enters when its  *)
(* key goes down, leaves when the key goes up or when a just_pressed asks  *)
(* about that key.                                                         *)
(***************************************************************************)
RegChange(keys) ==
    /\ ~halted
    /\ \E new \in SUBSET keys :
          /\ new # reg
          /\ reg' = new
          /\ unreported' = (unreported \cap new) \cup (new \ reg)
    /\ UNCHANGED <<GameVars, line, prev_state, overflow_checks, halted, trace, ncalls>>
    /\ UNCHANGED <<MainVars, ToolVars>>

JustPressed(ch, window) ==
    /\ ~halted
    /\ LET r == just_pressed(prev_state, reg, ch)
           idx == letter_index(ch)
       IN  /\ prev_state' = r.prev_state
           /\ unreported' = IF idx # <<>> THEN unreported \ {idx[1]} ELSE unreported
           /\ trace' = Push(trace, Entry("just_pressed", ch, prev_state, r.prev_state,
                                         r.ret, FALSE, r.io), window)
    /\ UNCHANGED <<GameVars, line, reg, overflow_checks, halted>>
    /\ UNCHANGED <<MainVars, ToolVars>>

IsPressed(ch, window) ==
    /\ ~halted
    /\ LET r == is_pressed(prev_state, reg, ch)
       IN  /\ prev_state' = r.prev_state
           /\ trace' = Push(trace, Entry("is_pressed", ch, prev_state, r.prev_state,
                                         r.ret, FALSE, r.io), window)
    /\ UNCHANGED <<GameVars, line, reg, unreported, overflow_checks, halted>>
    /\ UNCHANGED <<MainVars, ToolVars>>

(***************************************************************************)
(* SpecKb: one Keyboard from Keyboard::new(), the keys changing freely,    *)
(* is_pressed and just_pressed asked in any order about any character.     *)
(* trace keeps the last two calls; ncalls is not counted (the loop polls   *)
(* forever).                                                               *)
(***************************************************************************)
InitKb ==
    /\ grid = Game_new.grid
    /\ score = Game_new.score
    /\ rng = Game_new.rng
    /\ line = NoLine
    /\ reg = Zero
    /\ prev_state = Zero
    /\ unreported = Zero
    /\ overflow_checks = FALSE
    /\ halted = FALSE
    /\ trace = <<>>
    /\ ncalls = 0
    /\ NoMain
    /\ NoTool

KbKeys == RegChange(KeyBits(NumKeys))
KbJustPressed(ch) == JustPressed(ch, 2) /\ UNCHANGED ncalls
KbIsPressed(ch) == IsPressed(ch, 2) /\ UNCHANGED ncalls

NextKb ==
    \/ KbKeys
    \/ \E ch \in Chars : KbJustPressed(ch)
    \/ \E ch \in Chars : KbIsPressed(ch)

SpecKb == InitKb /\ [][NextKb]_vars

(***************************************************************************)
(* SpecPoll: a polling session on a fresh Keyboard, every poll recorded:   *)
(* up to MaxPolls just_pressed queries about letters, the keys changing    *)
(* freely between them.                                                    *)
(***************************************************************************)
PollKeysChange == RegChange(KeyBits(PollKeys))
Poll(ch) == ncalls < MaxPolls /\ JustPressed(ch, MaxPolls) /\ ncalls' = ncalls + 1

NextPoll ==
    \/ PollKeysChange
    \/ \E ch \in PollChars : Poll(ch)

SpecPoll == InitKb /\ [][NextPoll]_vars

(***************************************************************************)
(* xtask: gen_rom_hex, from the bytes of the .bin file to the lines of     *)
(* rom.hex.  A byte is 0..255, a word is the set of its set bits, a line   *)
(* is the eight characters written before the newline.                     *)
(***************************************************************************)
\* while data.len() % 4 != 0 { data.push(0) }
RECURSIVE PadToWord(_)
PadToWord(data) == IF Len(data) % 4 = 0 THEN data ELSE PadToWord(Append(data, 0))

ByteBit(b, t) == (b \div (2 ^ t)) % 2 = 1

\* u32::from_le_bytes: byte j supplies bits 8j .. 8j+7
from_le_bytes(c) == {n \in Bits : ByteBit(c[(n \div 8) + 1], n % 8)}

\* data.chunks_exact(4).map(from_le_bytes).collect()
Words(data) ==
    [i \in 1..(Len(data) \div 4) |-> from_le_bytes(SubSeq(data, 4 * i - 3, 4 * i))]

\* words.truncate(MAX_WORDS) / words.resize(MAX_WORDS, 0)
Fit(words) ==
    IF Len(words) > MAX_WORDS THEN SubSeq(words, 1, MAX_WORDS)
    ELSE [i \in 1..MAX_WORDS |-> IF i <= Len(words) THEN words[i] ELSE Zero]

HexDigits == <<"0", "1", "2", "3", "4", "5", "6", "7",
               "8", "9", "a", "b", "c", "d", "e", "f">>

\* the value of the four bits of w from bit lo upward
Nibble(w, lo) ==
    (IF lo \in w THEN 1 ELSE 0) + (IF lo + 1 \in w THEN 2 ELSE 0)
      + (IF lo + 2 \in w THEN 4 ELSE 0) + (IF lo + 3 \in w THEN 8 ELSE 0)

\* format!("{w:08x}"): eight lower-case digits, the most significant first
FormatHex08_reversed(w) == [k \in 1..8 |-> HexDigits[Nibble(w, 4 * (k - 1)) + 1]]

FormatHex08(w) == [k \in 1..8 |-> HexDigits[Nibble(w, 4 * (8 - k)) + 1]]

gen_rom_hex(data) ==
    LET words == Fit(Words(PadToWord(data)))
    IN  [i \in 1..Len(words) |-> FormatHex08(words[i])]

GenRomHex ==
    /\ ncalls = 0
    /\ hex' = gen_rom_hex(bin)
    /\ ncalls' = ncalls + 1
    /\ UNCHANGED <<GameVars, line, KbVars, overflow_checks, halted, trace, MainVars, bin>>

(***************************************************************************)
(* SpecRom: gen_rom_hex run once on an image of 0..MaxShort bytes or of a  *)
(* length within MaxOver bytes of the 4 * MAX_WORDS the ROM holds, filled  *)
(* with one of NumFills byte patterns.                                     *)
(***************************************************************************)
ImageLens ==
    (0..MaxShort) \cup ((4 * MAX_WORDS - MaxOver)..(4 * MAX_WORDS + MaxOver))

Image(n, a) == [i \in 1..n |-> (i * (37 * a) + 200 * a) % 256]

InitRom ==
    /\ grid = Game_new.grid
    /\ score = Game_new.score
    /\ rng = Game_new.rng
    /\ line = NoLine
    /\ reg = Zero
    /\ prev_state = Zero
    /\ unreported = Zero
    /\ overflow_checks = FALSE
    /\ halted = FALSE
    /\ trace = <<>>
    /\ ncalls = 0
    /\ NoMain
    /\ bin \in {Image(n, a) : n \in ImageLens, a \in 1..NumFills}
    /\ hex = <<>>

NextRom == GenRomHex

SpecRom == InitRom /\ [][NextRom]_vars

(***************************************************************************)
(* Display and Game::render.  The framebuffer is write-only, so the model  *)
(* keeps the writes, not the pixels: a fill is one record, a draw_rect is  *)
(* one record that stands for the set_pixel(x, y, color) calls of its two  *)
(* loops, x over xlo..xhi inside y over ylo..yhi.  A debug build panics at *)
(* the first set_pixel whose debug_assert fails.                           *)
(***************************************************************************)
BOARD_LEFT == (DISP_WIDTH - GRID * TILE_SIZE) \div 2
BOARD_TOP == (DISP_HEIGHT - GRID * TILE_SIZE) \div 2
FB_WORDS == DISP_WIDTH * DISP_HEIGHT

Display_fill(value) == [op |-> "fill", first |-> 0, count |-> FB_WORDS, color |-> value]

\* Display::set_pixel: the word written, or the panic of the debug_assert
set_pixel(x, y, color, checks) ==
    [idx |-> x + y * DISP_WIDTH, color |-> color,
     panic |-> checks /\ ~(x < DISP_WIDTH /\ y < DISP_HEIGHT)]

draw_rect_swapped(x0, y0, size, color, checks) ==
    [op |-> "draw_rect", xlo |-> y0, xhi |-> y0 + size - 1,
     ylo |-> x0, yhi |-> x0 + size - 1, color |-> color,
     panic |-> \E y \in x0..(x0 + size - 1) : \E x \in y0..(y0 + size - 1) :
                   set_pixel(x, y, color, checks).panic]

draw_rect(x0, y0, size, color, checks) ==
    [op |-> "draw_rect", xlo |-> x0, xhi |-> x0 + size - 1,
     ylo |-> y0, yhi |-> y0 + size - 1, color |-> color,
     panic |-> \E y \in y0..(y0 + size - 1) : \E x \in x0..(x0 + size - 1) :
                   set_pixel(x, y, color, checks).panic]

\* 0x111, 0xEEE, 0xDD0, 0xFF8, 0xFB0, 0xF90, 0xF70, 0xF50, 0xF30, 0xF00
color_for(exp) ==
    CASE exp = 0 -> 273
      [] exp = 1 -> 3822
      [] exp = 2 -> 3536
      [] exp = 3 -> 4088
      [] exp = 4 -> 4016
      [] exp = 5 -> 3984
      [] exp = 6 -> 3952
      [] exp = 7 -> 3920
      [] exp = 8 -> 3888
      [] OTHER -> 3840

\* the draw_rect of cell number n, row by row, in either build; where it
\* writes does not depend on the colour, which is filled in by TileRect
TileRects ==
    [n \in 0..(GRID * GRID - 1) |-> [checks \in BOOLEAN |->
        draw_rect(BOARD_LEFT + (n % GRID) * TILE_SIZE, BOARD_TOP + (n \div GRID) * TILE_SIZE,
                  TILE_SIZE - 2, 0, checks)]]

TileRect(g, n, checks) ==
    [TileRects[n][checks] EXCEPT !.color = color_for(g[n \div GRID][n % GRID])]

\* the calls render makes on the display, up to a panic
RECURSIVE RenderFrom(_, _, _, _)
RenderFrom(g, n, done, checks) ==
    IF n = GRID * GRID THEN [io |-> done, panic |-> FALSE]
    ELSE LET r == TileRect(g, n, checks)
         IN  IF r.panic THEN [io |-> Append(done, r), panic |-> TRUE]
             ELSE RenderFrom(g, n + 1, Append(done, r), checks)

render(self, checks) == RenderFrom(self.grid, 0, <<Display_fill(0)>>, checks)

Render(window) ==
    /\ ~halted
    /\ \E r \in {render(Self, overflow_checks)} :
           /\ halted' = r.panic
           /\ trace' = Push(trace, Entry("render", "-", Self, Self, FALSE, r.panic, r.io),
                            window)
    /\ ncalls' = ncalls + 1
    /\ UNCHANGED <<GameVars, line, KbVars, overflow_checks, MainVars, ToolVars>>

(***************************************************************************)
(* SpecRender: one render of a grid, in either build.  The grids alternate *)
(* two rows of Rows, or hold the exponents 0..MaxTile in turn (MaxTile = 9 *)
(* reaches the fallback colour); where render writes does not depend on    *)
(* the grid.                                                               *)
(***************************************************************************)
RenderGrids ==
    {[y \in Idx |-> IF y % 2 = 0 THEN a ELSE b] : a, b \in Rows} \cup
    {[y \in Idx |-> [x \in Idx |-> (GRID * y + x + k) % (MaxTile + 1)]] : k \in 0..MaxTile}

InitRender ==
    /\ grid \in RenderGrids
    /\ score = 0
    /\ rng = Game_new.rng
    /\ line = NoLine
    /\ reg = Zero
    /\ prev_state = Zero
    /\ unreported = Zero
    /\ overflow_checks \in BOOLEAN
    /\ halted = FALSE
    /\ trace = <<>>
    /\ ncalls = 0
    /\ NoMain
    /\ NoTool

NextRender == ncalls = 0 /\ Render(1)

SpecRender == InitRender /\ [][NextRender]_vars

(***************************************************************************)
(* main.  pc is the statement about to run: "start" (lines 224-227), then  *)
(* the five `if keyboard.just_pressed(..) { .. }` statements of the loop,  *)
(* named by their letter.  One step runs one statement whole: the poll,    *)
(* and on an edge the operation and the render it leads to.                *)
(***************************************************************************)
PollOrder == <<"w", "s", "a", "d", "r">>

CharOf(l) ==
    CASE l = "w" -> 119 [] l = "s" -> 115 [] l = "a" -> 97 [] l = "d" -> 100 [] l = "r" -> 114

DirOf(l) ==
    CASE l = "w" -> "Up" [] l = "s" -> "Down" [] l = "a" -> "Left" [] l = "d" -> "Right"

\* the statement that follows statement l
After(l) ==
    CASE l = "start" -> "w" [] l = "w" -> "s" [] l = "s" -> "a" [] l = "a" -> "d"
      [] l = "d" -> "r" [] l = "r" -> "w"

\* game.reset(); game.render();
ResetAndRender(self, checks) ==
    LET rs == reset(self)
        rn == render(rs.self, checks)
    IN  [self |-> rs.self, panic |-> rn.panic,
         calls |-> << Entry("reset", "-", self, rs.self, FALSE, FALSE, rs.drawn),
                      Entry("render", "-", rs.self, rs.self, FALSE, rn.panic, rn.io) >>]

MoveAndRender_unconditional(self, dir, checks) ==
    LET mm == make_move(self, dir, checks)
        rn == render(mm.self, checks)
        moved == Entry("make_move", dir, self, mm.self, mm.ret, mm.panic, mm.io)
    IN  IF ~mm.panic
        THEN [self |-> mm.self, panic |-> rn.panic,
              calls |-> << moved,
                           Entry("render", "-", mm.self, mm.self, FALSE, rn.panic, rn.io) >>]
        ELSE [self |-> mm.self, panic |-> mm.panic, calls |-> << moved >>]

\* if game.make_move(dir) { game.render(); }
MoveAndRender(self, dir, checks) ==
    LET mm == make_move(self, dir, checks)
        rn == render(mm.self, checks)
        moved == Entry("make_move", dir, self, mm.self, mm.ret, mm.panic, mm.io)
    IN  IF mm.ret /\ ~mm.panic
        THEN [self |-> mm.self, panic |-> rn.panic,
              calls |-> << moved,
                           Entry("render", "-", mm.self, mm.self, FALSE, rn.panic, rn.io) >>]
        ELSE [self |-> mm.self, panic |-> mm.panic, calls |-> << moved >>]

\* the body of the statement for letter l, run when just_pressed returned true
Handle(self, l, checks) ==
    IF l = "r" THEN ResetAndRender(self, checks) ELSE MoveAndRender(self, DirOf(l), checks)

RECURSIVE PushAll(_, _, _)
PushAll(t, es, window) ==
    IF es = <<>> THEN t ELSE PushAll(Push(t, Head(es), window), Tail(es), window)

\* held follows one key, any of those the register changes on: whether it
\* is down, and since it went down the polls made (up to the five of one
\* iteration) and the operations applied for it (up to 2)
Released(key) == [key |-> key, down |-> FALSE, age |-> 0, applied |-> 0]
Pressed(key) == [key |-> key, down |-> TRUE, age |-> 0, applied |-> 0]

Aged(h, applied) ==
    IF h.down
    THEN [h EXCEPT !.age = Min(h.age + 1, Len(PollOrder)),
                   !.applied = Min(h.applied + (IF h.key \in applied THEN 1 ELSE 0), 2)]
    ELSE h

MainStart ==
    /\ pc = "start"
    /\ ~halted
    /\ \E r \in {ResetAndRender(Game_new, overflow_checks)} :
           /\ grid' = r.self.grid
           /\ score' = r.self.score
           /\ rng' = r.self.rng
           /\ halted' = r.panic
           /\ trace' = PushAll(trace, r.calls, 3)
    /\ prev_state' = Zero
    /\ ncalls' = ncalls + 1
    /\ pc' = After(pc)
    /\ UNCHANGED <<line, reg, unreported, held, overflow_checks, ToolVars>>

MainPoll ==
    /\ pc \in {PollOrder[k] : k \in 1..Len(PollOrder)}
    /\ ~halted
    /\ \E jp \in {just_pressed(prev_state, reg, CharOf(pc))} :
         \E key \in {letter_index(CharOf(pc))[1]} :
           /\ jp.ret => ncalls < MaxMainOps
           /\ prev_state' = jp.prev_state
           /\ unreported' = unreported \ {key}
           /\ held' = Aged(held, IF jp.ret THEN {key} ELSE {})
           /\ \E polled \in {Entry("just_pressed", CharOf(pc), prev_state,
                                    jp.prev_state, jp.ret, FALSE, jp.io)} :
                IF jp.ret
                THEN \E r \in {Handle(Self, pc, overflow_checks)} :
                       /\ grid' = r.self.grid
                       /\ score' = r.self.score
                       /\ rng' = r.self.rng
                       /\ halted' = r.panic
                       /\ trace' = PushAll(trace, <<polled>> \o r.calls, 3)
                       /\ ncalls' = ncalls + 1
                ELSE /\ trace' = Push(trace, polled, 3)
                     /\ UNCHANGED <<GameVars, halted, ncalls>>
    /\ pc' = After(pc)
    /\ UNCHANGED <<line, reg, overflow_checks, ToolVars>>

\* keys go down and up between two statements
MainKeys ==
    /\ pc # "start"
    /\ ~halted
    /\ \E new \in SUBSET MainKeyBits :
          /\ new # reg
          /\ reg' = new
          /\ unreported' = (unreported \cap new) \cup (new \ reg)
          /\ held' = IF held.key \in new \ reg THEN Pressed(held.key)
                     ELSE IF held.key \in reg \ new THEN Released(held.key)
                     ELSE held
    /\ UNCHANGED <<GameVars, line, prev_state, overflow_checks, halted, trace, ncalls,
                   pc, ToolVars>>

\* main about to start, with held following one of the keys given
InitWatching(keys) ==
    /\ grid = Game_new.grid
    /\ score = Game_new.score
    /\ rng = Game_new.rng
    /\ line = NoLine
    /\ reg = Zero
    /\ prev_state = Zero
    /\ unreported = Zero
    /\ overflow_checks \in BOOLEAN
    /\ halted = FALSE
    /\ trace = <<>>
    /\ ncalls = 0
    /\ pc = "start"
    /\ held \in {Released(b) : b \in keys}
    /\ NoTool

NextMain ==
    \/ MainStart
    \/ MainPoll
    \/ MainKeys

\* SpecMain: main from its first statement; held follows no key (-1 is none)
InitMain == InitWatching({-1})

SpecMain == InitMain /\ [][NextMain]_vars

\* SpecHold: the same, with held following any one of the keys that change
InitHold == InitWatching(MainKeyBits)

SpecHold == InitHold /\ [][NextMain]_vars

(***************************************************************************)
(*                               Claims                                    *)
(***************************************************************************)
CalledOp(op) == Called /\ call.op = op /\ ~call.panic

NoEqualNeighbours(l) ==
    \A i \in 0..(GRID - 2) : ~(l[i] # 0 /\ l[i] = l[i + 1])

\* C1 as stated: slide_line is idempotent: a second slide_line on the result
\* of slide_line(L) leaves that result unchanged, for every line L.
C1_SlideLineIdempotent ==
    (Len(trace) = 2 /\ CalledOp("slide_line")) => trace[2].post = trace[1].post

\* C1 amended: slide_line(slide_line(L)) = slide_line(L) for every line L
\* whose result slide_line(L) holds no two equal adjacent non-zero cells.
C1_SlideLineIdempotentUnlessMergeable ==
    (Len(trace) = 2 /\ CalledOp("slide_line") /\ NoEqualNeighbours(trace[1].post))
        => trace[2].post = trace[1].post

\* the first call compacted and merged [0,1,1,3] into [2,3,0,0], and the
\* second call left that result alone
C1_Witness ==
    /\ Len(trace) = 2
    /\ CalledOp("slide_line")
    /\ trace[1].pre = L(0, 1, 1, 3)
    /\ trace[1].post = L(2, 3, 0, 0)
    /\ trace[1].ret
    /\ trace[2].post = trace[1].post
    /\ ~trace[2].ret

Low2(w) == w \cap {0, 1}

\* the cells a call changed
Changed(e) == {c \in Idx \X Idx : e.pre.grid[c[1]][c[2]] # e.post.grid[c[1]][c[2]]}

Placed(e) == CalledOp("spawn_tile") /\ Len(e.io) = 2

\* C2 as stated: when spawn_tile places a tile, the cell is set to exponent 2
\* when the low two bits of the second draw are not 0, and to 1 when they are 0.
C2_FourWhenLowBitsNonZero ==
    Placed(call) =>
        \A c \in Changed(call) :
            grid[c[1]][c[2]] = IF Low2(call.io[2]) # Zero THEN 2 ELSE 1

\* C2 amended: when spawn_tile places a tile, it changes one cell, which is set
\* to exponent 2 when the low two bits of the second draw are 0, and to
\* exponent 1 when they are not 0.
C2_FourWhenLowBitsZero ==
    Placed(call) =>
        /\ Cardinality(Changed(call)) = 1
        /\ \A c \in Changed(call) :
              /\ call.pre.grid[c[1]][c[2]] = 0
              /\ grid[c[1]][c[2]] = IF Low2(call.io[2]) = Zero THEN 2 ELSE 1

\* spawn_tile drew a second value with low bits 00 and placed a 4
C2_Witness ==
    /\ Placed(call)
    /\ Low2(call.io[2]) = Zero
    /\ \E c \in Changed(call) : grid[c[1]][c[2]] = 2

\* C7: whenever make_move returns false, the grid, the score and the PRNG
\* state are what they were before the call, and nothing was drawn.
C7_NoMoveNoChange ==
    (CalledOp("make_move") /\ ~call.ret) =>
        /\ Self = call.pre
        /\ call.post = call.pre
        /\ call.io = <<>>

\* make_move returned false on a full grid
C7_Witness ==
    /\ CalledOp("make_move")
    /\ ~call.ret
    /\ Occupied(call.pre.grid) = GRID * GRID
    /\ Self = call.pre

\* C8: make_move leaves at most one more occupied cell than it found, and
\* more than it found only when it returns true.
C8_AtMostOneMoreTile ==
    CalledOp("make_move") =>
        /\ Occupied(grid) <= Occupied(call.pre.grid) + 1
        /\ (Occupied(grid) > Occupied(call.pre.grid) => call.ret)

\* make_move returned true and left one more tile than it found
C8_Witness ==
    /\ CalledOp("make_move")
    /\ call.ret
    /\ Occupied(grid) = Occupied(call.pre.grid) + 1

\* C9: after reset the score is 0, the grid holds exactly two tiles, each of
\* exponent 1 or 2, and the PRNG state is the state before reset advanced by
\* exactly four draws.
C9_ResetSpawnsTwo ==
    CalledOp("reset") =>
        /\ score = 0
        /\ Occupied(grid) = 2
        /\ \A y \in Idx, x \in Idx : grid[y][x] \in {0, 1, 2}
        /\ Len(call.io) = 4
        /\ rng = Draws(call.pre.rng, 4)

\* reset of a full grid with a non-zero score, from a PRNG state other than the seed
C9_Witness ==
    /\ CalledOp("reset")
    /\ Occupied(call.pre.grid) = GRID * GRID
    /\ call.pre.score # 0
    /\ call.pre.rng # Game_new.rng
    /\ Occupied(grid) = 2

\* C10: the PRNG state is never 0: next_rand returns a non-zero value, which
\* is the new state.
C10_RngNeverZero ==
    /\ rng # Zero
    /\ (Called /\ call.op \in {"next_rand", "spawn_tile", "reset", "make_move"}) =>
          \A i \in 1..Len(call.io) : call.io[i] # Zero
    /\ CalledOp("next_rand") => call.io = <<rng>>

\* a draw from the initial seed 1
C10_Witness ==
    /\ CalledOp("next_rand")
    /\ call.pre = Game_new.rng
    /\ rng # Zero

IsAsciiLetter(ch) == (ch >= 65 /\ ch <= 90) \/ (ch >= 97 /\ ch <= 122)

\* the entry is a just_pressed query that reached just_pressed_idx
Sampled(e) == e.op = "just_pressed" /\ letter_index(e.arg) # <<>>
KeyOf(e) == letter_index(e.arg)[1]

\* C3 as stated: just_pressed(ch) returns true exactly once for each
\* released-to-pressed transition of ch's key that is still held at the next
\* just_pressed(ch) query, whatever was asked about other letters in between,
\* and false at every other query: a query about a key returns true iff the
\* key is down and its current hold has not been asked about yet.
C3_EveryPressReportedOnce ==
    [][(trace' # trace /\ Sampled(call'))
          => (call'.ret <=> KeyOf(call') \in unreported)]_vars

\* C4: on a fresh Keyboard asked about one letter only, each poll returns true
\* iff the letter's bit is set in that poll's sample and clear in the sample
\* of the poll before (0 before the first poll).
C4_OneLetterSession ==
    (Called /\ \A i \in 1..Len(trace) : Sampled(trace[i]) /\ trace[i].arg = call.arg)
        => \A i \in 1..Len(trace) :
              LET before == IF i = 1 THEN Zero ELSE trace[i - 1].io[1]
              IN  trace[i].ret <=>
                      (KeyOf(call) \in trace[i].io[1] /\ KeyOf(call) \notin before)

\* the samples [0, bit_set, bit_set, 0] polled for 'a' gave [false, true, false, false]
C4_Witness ==
    /\ Len(trace) = 4
    /\ \A i \in 1..4 : trace[i].op = "just_pressed" /\ trace[i].arg = 97
    /\ <<trace[1].io[1], trace[2].io[1], trace[3].io[1], trace[4].io[1]>>
           = <<Zero, {0}, {0}, Zero>>
    /\ <<trace[1].ret, trace[2].ret, trace[3].ret, trace[4].ret>>
           = <<FALSE, TRUE, FALSE, FALSE>>

C6_NonLettersNeverPressed ==
    /\ (Called /\ ~IsAsciiLetter(call.arg)) =>
          /\ ~call.ret
          /\ call.post = call.pre
          /\ prev_state = call.pre
    /\ \A c \in 65..90 :
          /\ letter_index(c) = <<c - 65>>
          /\ letter_index(c + 32) = <<c - 65>>

(***************************************************************************)
(* C13.  The value returned is the fact of a change.                       *)
(***************************************************************************)
\* the record of the slides of the make_move that call records
slides == trace[Len(trace) - 1]

\* the lines (rows for Left and Right, columns for Up and Down) that differ
\* between the grid given to the slides and the grid they left
ChangedLines(e) ==
    {k \in Idx : \E j \in Idx :
        IF e.arg \in {"Left", "Right"}
        THEN e.pre.grid[k][j] # e.post.grid[k][j]
        ELSE e.pre.grid[j][k] # e.post.grid[j][k]}

\* C13: slide_line returns true exactly when the line it leaves differs from
\* the line it was given, and make_move returns true exactly when at least
\* one of the four lines it slid was changed.
C13_MovedIffChanged ==
    /\ CalledOp("slide_line") => (call.ret <=> call.post # call.pre)
    /\ CalledOp("make_move") =>
          /\ slides.op = "slide" /\ slides.arg = call.arg /\ slides.pre = call.pre
          /\ call.ret <=> ChangedLines(slides) # {}

\* a move that changed the first line only
C13_Witness ==
    /\ CalledOp("make_move")
    /\ call.ret
    /\ ChangedLines(slides) = {0}

(***************************************************************************)
(* C14.  slide_line against the reference collapse.                        *)
(***************************************************************************)
\* the tiles of a line, in order
Tiles(l) == SelectSeq([i \in 1..GRID |-> l[i - 1]], LAMBDA v : v # 0)

\* equal adjacent pairs merged once, from the first tile upward
RECURSIVE MergePairs(_)
MergePairs(s) ==
    IF Len(s) < 2 THEN s
    ELSE IF s[1] = s[2] THEN <<s[1] + 1>> \o MergePairs(SubSeq(s, 3, Len(s)))
         ELSE <<s[1]>> \o MergePairs(Tail(s))

Collapse(l) ==
    LET m == MergePairs(Tiles(l))
    IN  [i \in Idx |-> IF i < Len(m) THEN m[i + 1] ELSE 0]

\* the reference result is a line of u8
Fits(l) == \A i \in Idx : Collapse(l)[i] <= U8Max

Mirror(g) == [y \in Idx |-> [x \in Idx |-> g[y][GRID - 1 - x]]]
Transpose(g) == [y \in Idx |-> [x \in Idx |-> g[x][y]]]
FlipRows(g) == [y \in Idx |-> [x \in Idx |-> g[GRID - 1 - y][x]]]

\* what the slides of make_move(dir) leave of grid g, and their moved
Slid(g, dir) == SlideAll(g, dir, 0, FALSE, overflow_checks)

\* C15: the grid make_move(Right) holds just before its spawn is the mirror
\* image of what Left leaves of the mirrored grid, Up is Left conjugated by
\* transposition, Down is Up conjugated by the top-bottom flip, and the
\* moved values agree.
C15_DirectionSymmetry ==
    CalledOp("make_move") =>
        LET G == call.pre.grid
            after == slides.post.grid
        IN  /\ slides.op = "slide"
            /\ call.arg = "Right" =>
                  /\ after = Mirror(Slid(Mirror(G), "Left").grid)
                  /\ call.ret = Slid(Mirror(G), "Left").moved
            /\ call.arg = "Up" =>
                  /\ after = Transpose(Slid(Transpose(G), "Left").grid)
                  /\ call.ret = Slid(Transpose(G), "Left").moved
            /\ call.arg = "Down" =>
                  /\ after = FlipRows(Slid(FlipRows(G), "Up").grid)
                  /\ call.ret = Slid(FlipRows(G), "Up").moved

\* a move to the right that merged: the grid is not its own mirror image
C15_Witness ==
    /\ CalledOp("make_move")
    /\ call.arg = "Right"
    /\ call.ret
    /\ call.pre.grid[0] = L(1, 1, 0, 0)
    /\ slides.post.grid[0] = L(0, 0, 0, 2)

(***************************************************************************)
(* C16.  Where spawn_tile puts the tile.                                   *)
(***************************************************************************)
EmptyCells(g) == {c \in Idx \X Idx : g[c[1]][c[2]] = 0}

\* the number of empty cells that precede cell c in row-major order
Rank(g, c) ==
    Cardinality({d \in EmptyCells(g) : d[1] * GRID + d[2] < c[1] * GRID + c[2]})

\* 2^b mod k, and the value of word w mod k as the sum of its bits' values
RECURSIVE Pow2Mod(_, _)
Pow2Mod(b, k) == IF b = 0 THEN 1 % k ELSE (2 * Pow2Mod(b - 1, k)) % k

RECURSIVE ValueMod(_, _, _)
ValueMod(w, k, b) ==
    IF b = WordBits THEN 0
    ELSE ((IF b \in w THEN Pow2Mod(b, k) ELSE 0) + ValueMod(w, k, b + 1)) % k

\* C16: on a full grid spawn_tile changes nothing and draws nothing; with
\* k >= 1 empty cells it draws exactly two values and changes exactly one
\* cell, the empty cell whose row-major rank among the empty cells is the
\* first draw mod k; every other cell and the score are unchanged.
C16_SpawnAtRank ==
    CalledOp("spawn_tile") =>
        LET E == EmptyCells(call.pre.grid)
            k == Cardinality(E)
        IN  IF k = 0
            THEN call.post = call.pre /\ call.io = <<>>
            ELSE /\ Len(call.io) = 2
                 /\ call.io[1] = next_rand(call.pre.rng)
                 /\ call.io[2] = next_rand(call.io[1])
                 /\ call.post.rng = call.io[2]
                 /\ call.post.score = call.pre.score
                 /\ \E c \in E :
                       /\ Changed(call) = {c}
                       /\ Rank(call.pre.grid, c) = ValueMod(call.io[1], k, 0)

\* a tile placed on an empty cell that is neither the first nor the last
C16_Witness ==
    /\ CalledOp("spawn_tile")
    /\ \E c \in EmptyCells(call.pre.grid) :
          /\ Changed(call) = {c}
          /\ Rank(call.pre.grid, c) > 0
          /\ Rank(call.pre.grid, c) < Cardinality(EmptyCells(call.pre.grid)) - 1

(***************************************************************************)
(* C18.  just_pressed reports no edge that is not there.                   *)
(***************************************************************************)
\* C18: just_pressed returns true only when the letter's bit is set in the
\* sample it has just read, and during one continuous hold of a key at most
\* one query for that letter returns true, whatever else is asked in between:
\* a true answer is given to the first query of a hold or to none.
C18_NoSpuriousEdge ==
    [][(trace' # trace /\ call'.op = "just_pressed" /\ call'.ret)
          => /\ Sampled(call')
             /\ call'.io # <<>>
             /\ KeyOf(call') \in call'.io[1]
             /\ KeyOf(call') \in unreported]_vars

\* two queries for one letter during one hold: true, then false
C18_Witness ==
    /\ Len(trace) = 2
    /\ Sampled(trace[1]) /\ Sampled(trace[2])
    /\ KeyOf(trace[1]) = KeyOf(trace[2])
    /\ trace[1].ret /\ ~trace[2].ret
    /\ KeyOf(trace[2]) \in trace[2].io[1]
    /\ KeyOf(trace[2]) \notin unreported
    /\ KeyOf(trace[2]) \in reg

(***************************************************************************)
(* C19.  Tile value is conserved by slides and grows by the spawned tile.  *)
(***************************************************************************)
RECURSIVE Pow2(_)
Pow2(n) == IF n = 0 THEN 1 ELSE 2 * Pow2(n - 1)

\* the value of a cell: 2^exponent, nothing for an empty cell
TileValue(v) == IF v = 0 THEN 0 ELSE Pow2(v)

LineTotal(l) == TileValue(l[0]) + TileValue(l[1]) + TileValue(l[2]) + TileValue(l[3])
GridTotal(g) == LineTotal(g[0]) + LineTotal(g[1]) + LineTotal(g[2]) + LineTotal(g[3])

Below255(l) == \A i \in Idx : l[i] < U8Max

\* C19: slide_line keeps the sum of 2^exponent over the non-empty cells of
\* a line whose exponents are below 255; make_move leaves the grid's total
\* unchanged when it returns false and raises it by exactly 2 or 4 when it
\* returns true.
C19_ValueConserved ==
    /\ (CalledOp("slide_line") /\ Below255(call.pre)) =>
          LineTotal(call.post) = LineTotal(call.pre)
    /\ CalledOp("make_move") =>
          LET gain == GridTotal(call.post.grid) - GridTotal(call.pre.grid)
          IN  IF call.ret THEN gain \in {2, 4} ELSE gain = 0

\* a move that merged tiles and spawned a 4
C19_Witness ==
    /\ CalledOp("make_move")
    /\ call.ret
    /\ Occupied(slides.post.grid) < Occupied(call.pre.grid)
    /\ GridTotal(call.post.grid) = GridTotal(call.pre.grid) + 4

(***************************************************************************)
(* C12.  rom.hex is the image, word by word, cut or filled to the ROM.     *)
(***************************************************************************)
\* byte i of the image (from 0), 0 beyond its end
ByteAt(data, i) == IF i < Len(data) THEN data[i + 1] ELSE 0

\* the two digits of a byte
Hex2(b) == <<HexDigits[(b \div 16) + 1], HexDigits[(b % 16) + 1]>>

\* the line for word i (from 0): its four bytes, the last first
LineOf(data, i) ==
    Hex2(ByteAt(data, 4 * i + 3)) \o Hex2(ByteAt(data, 4 * i + 2))
      \o Hex2(ByteAt(data, 4 * i + 1)) \o Hex2(ByteAt(data, 4 * i))

\* C12: the conversion always emits exactly 4096 lines; the bytes are
\* zero-padded to a multiple of 4 and grouped into little-endian words; with
\* n <= 4096 words the first n lines are the words in order and the other
\* 4096 - n lines are 00000000; with more, the lines are the first 4096 words.
C12_RomImage ==
    ncalls = 1 =>
        LET n == (Len(bin) + 3) \div 4
        IN  /\ Len(hex) = 4096
            /\ \A i \in 1..4096 :
                  hex[i] = IF i <= n THEN LineOf(bin, i - 1)
                           ELSE <<"0", "0", "0", "0", "0", "0", "0", "0">>

\* an image one byte longer than the ROM: 4097 words, the last one dropped
C12_Witness ==
    /\ ncalls = 1
    /\ Len(bin) = 4 * 4096 + 1
    /\ Len(hex) = 4096
    /\ hex[4096] = LineOf(bin, 4095)
    /\ hex[4096] # <<"0", "0", "0", "0", "0", "0", "0", "0">>

(***************************************************************************)
(* C20.  render stays inside the framebuffer and clears it first.          *)
(***************************************************************************)
\* the (x, y) of the set_pixel calls a draw_rect record stands for
Pixels(r) == (r.xlo..r.xhi) \X (r.ylo..r.yhi)

\* C20: every set_pixel call issued by render has x < 320 and y < 240, so
\* its index x + y*320 is below 320*240 and the debug assertion never fires,
\* for every grid; and every render starts with the fill of the whole
\* framebuffer, before any tile pixel is written.
C20_RenderInBounds ==
    (Called /\ call.op = "render") =>
        /\ ~call.panic
        /\ Len(call.io) = 17
        /\ call.io[1].op = "fill" /\ call.io[1].first = 0 /\ call.io[1].count = 320 * 240
        /\ \A n \in 2..Len(call.io) :
              /\ call.io[n].op = "draw_rect"
              /\ \A p \in Pixels(call.io[n]) :
                    /\ p[1] < 320 /\ p[2] < 240
                    /\ p[1] + p[2] * 320 < 320 * 240

\* a render in the build that checks the assertion; the last tile drawn
\* ends at pixel (257, 217)
C20_Witness ==
    /\ Called /\ call.op = "render"
    /\ overflow_checks
    /\ call.pre.grid[3][3] # 0
    /\ call.io[17].xhi = 257 /\ call.io[17].yhi = 217
    /\ call.io[17].color = 3822

(***************************************************************************)
(* C11.  What main polls, and when it renders.                             *)
(***************************************************************************)
\* 'w', 's', 'a', 'd', 'r', each followed by the next and 'r' by 'w'
Follows(ch) ==
    CASE ch = 119 -> 115 [] ch = 115 -> 97 [] ch = 97 -> 100 [] ch = 100 -> 114
      [] ch = 114 -> 119

Polls == {i \in 1..Len(trace) : trace[i].op = "just_pressed"}

C17_HeldKeyAppliedOnce ==
    (pc # "-" /\ held.down) =>
        /\ held.applied <= 1
        /\ held.age >= 5 => held.applied = 1

====
